---- MODULE Spec2Model ----
(***************************************************************************)
(* Model of ghglim (src/src/main.rs): one workflow-list request, then one  *)
(* run-list request per workflow, each rendered as a block of text lines.  *)
(*                                                                         *)
(* Everything the program does that can be observed (lines on standard     *)
(* output, lines on standard error, HTTP requests and their responses) is  *)
(* appended, in program order, to the sequence `trace`.                    *)
(***************************************************************************)
EXTENDS Integers, Sequences, FiniteSets, TLC

VARIABLES pc, tz, workflows, index, last_run, trace, exitCode

vars == <<pc, tz, workflows, index, last_run, trace, exitCode>>

\* Largest number of workflows a workflow-list response carries in the model.
MaxWorkflows == 2

-----------------------------------------------------------------------------
(* Timestamp strings.  A string is kept as its three textual parts:        *)
(* body ++ frac ++ zone, e.g. "2024-01-15T10:30:00" ++ ".123" ++ "Z".      *)

NoTs == [none |-> TRUE]

Ts(body, frac, zone) == [body |-> body, frac |-> frac, zone |-> zone]

\* Bodies that match "%Y-%m-%dT%H:%M:%S", with the minute of the day they denote.
BodyMinutes ==
    [b \in {"2024-01-15T10:30:00", "2024-01-15T23:45:00"} |->
        IF b = "2024-01-15T10:30:00" THEN 630 ELSE 1425]

\* Texts that match "%z" (colon optional), with the offset in minutes.
ZoneMinutes ==
    [z \in {"+00:00", "+05:30", "-0800"} |->
        CASE z = "+00:00" -> 0
          [] z = "+05:30" -> 330
          [] z = "-0800" -> 0 - 480]

TsZ       == Ts("2024-01-15T10:30:00", "", "Z")
TsFracZ   == Ts("2024-01-15T23:45:00", ".123", "Z")
TsOffset  == Ts("2024-01-15T10:30:00", "", "+05:30")
TsFracOff == Ts("2024-01-15T23:45:00", ".123", "-0800")
TsNoZone  == Ts("2024-01-15T10:30:00", "", "")
TsGarbage == Ts("15/01/2024 10:30", "", "Z")

\* timestamp.replace("Z", "+00:00"): only the zone part can hold a "Z".
replace_Z(ts) == IF ts.zone = "Z" THEN [ts EXCEPT !.zone = "+00:00"] ELSE ts

ParseErr(kind) == [ok |-> FALSE, err |-> kind, utc |-> 0]
ParseOk(utc)   == [ok |-> TRUE, err |-> "", utc |-> utc]

\* DateTime::parse_from_str(s, "%Y-%m-%dT%H:%M:%S<frac>Z"): the literal Z is
\* matched as text and sets no offset, and a DateTime<FixedOffset> cannot be
\* built without one, so a matching text ends in NotEnough.
\* fracItem: TRUE for "%.3f" in the format (an optional fraction when parsing).
parse_from_str_Z(s, fracItem) ==
    IF s.body \notin DOMAIN BodyMinutes THEN ParseErr("Invalid")
    ELSE IF s.frac # "" /\ ~fracItem THEN ParseErr("Invalid")
    ELSE IF s.zone # "Z" THEN ParseErr("Invalid")
    ELSE ParseErr("NotEnough")

\* DateTime::parse_from_str(s, "%Y-%m-%dT%H:%M:%S<frac>%z"); the value keeps
\* the instant, naive_utc() = wall clock minus offset.
parse_from_str_z(s, fracItem) ==
    IF s.body \notin DOMAIN BodyMinutes THEN ParseErr("Invalid")
    ELSE IF s.frac # "" /\ ~fracItem THEN ParseErr("Invalid")
    ELSE IF s.zone \notin DOMAIN ZoneMinutes THEN ParseErr("Invalid")
    ELSE ParseOk(BodyMinutes[s.body] - ZoneMinutes[s.zone])

or_else(r, next) == IF r.ok THEN r ELSE next

\* Result<DateTime<Local>, ParseError>: local wall clock in minutes.
parse_github_timestamp_to_local(timestamp, localOffset) ==
    LET utc_dt ==
            or_else(parse_from_str_Z(timestamp, TRUE),
            or_else(parse_from_str_Z(timestamp, FALSE),
            or_else(parse_from_str_z(replace_Z(timestamp), TRUE),
                    parse_from_str_z(replace_Z(timestamp), FALSE))))
    IN  IF utc_dt.ok
        THEN [ok |-> TRUE, err |-> "", local |-> utc_dt.utc + localOffset]
        ELSE [ok |-> FALSE, err |-> utc_dt.err, local |-> 0]

-----------------------------------------------------------------------------
(* Observable events: ch is "out" (stdout), "err" (stderr), "req" (an HTTP *)
(* GET being sent) or "resp" (its outcome reaching the program).           *)

(*   tag : which line or request it is                                     *)
(*   n   : the number it shows (position, count, workflow id)              *)
(*   s   : the text it shows                                               *)
(*   m   : the marker or variant ("local", "raw", "never", "error", ...)   *)
(*   val : the timestamp string it shows, or the response received         *)

Ev(ch, tag, n, s, m, val) ==
    [ch |-> ch, tag |-> tag, n |-> n, s |-> s, m |-> m, val |-> val]

Out(tag, n, s, m, val) == Ev("out", tag, n, s, m, val)
Warn(tag, val)         == Ev("err", tag, 0, "", "", val)

-----------------------------------------------------------------------------
(* HTTP responses as the program sees them.                                *)
(*   sent   : FALSE when send() fails (network/transport error)            *)
(*   status : the HTTP status code                                         *)
(*   json   : whether the body is well-formed JSON                         *)
(*   doc    : the JSON document; doc.shape names the entity it decodes to  *)

Response(sent, status, json, doc) ==
    [sent |-> sent, status |-> status, json |-> json, doc |-> doc]

is_success(status) == status >= 200 /\ status <= 299

OtherDoc == [shape |-> "other"]

WorkflowRun(created_at, status, conclusion) ==
    [created_at |-> created_at, status |-> status, conclusion |-> conclusion]

RunsDoc(total, runs) ==
    [shape |-> "runs", total_count |-> total, workflow_runs |-> runs]

WorkflowsDoc(total, wfs) ==
    [shape |-> "workflows", total_count |-> total, workflows |-> wfs]

Workflow(id, name, state, created_at, updated_at) ==
    [id |-> id, name |-> name, state |-> state,
     created_at |-> created_at, updated_at |-> updated_at]

NetworkFailure == Response(FALSE, 0, FALSE, OtherDoc)
HttpStatus(st) == Response(TRUE, st, TRUE, OtherDoc)
NotJson        == Response(TRUE, 200, FALSE, OtherDoc)
Success(doc)   == Response(TRUE, 200, TRUE, doc)

\* Result<Option<String>, Box<dyn Error>>
OkSome(v) == [tag |-> "Ok", some |-> TRUE, value |-> v, err |-> ""]
OkNone    == [tag |-> "Ok", some |-> FALSE, value |-> NoTs, err |-> ""]
Err(e)    == [tag |-> "Err", some |-> FALSE, value |-> NoTs, err |-> e]

\* Variant: a schema mismatch of the run list is swallowed as "no runs".
get_last_run_date_lenient(workflow_id, response) ==
    LET request == <<Ev("req", "runs", workflow_id, "", "per_page=1", NoTs),
                     Ev("resp", "runs", workflow_id, "", "", response)>>
    IN  IF ~response.sent
        THEN [events |-> request, result |-> Err("send")]
        ELSE IF is_success(response.status)
        THEN IF ~response.json
             THEN [events |-> request, result |-> Err("json")]
             ELSE IF response.doc.shape # "runs"
             THEN [events |-> request, result |-> OkNone]
             ELSE IF response.doc.workflow_runs # << >>
             THEN [events |-> request,
                   result |-> OkSome(Head(response.doc.workflow_runs).created_at)]
             ELSE [events |-> request, result |-> OkNone]
        ELSE [events |-> request \o
                 <<Out("fetch_runs_failed", workflow_id, "", "",
                       [status |-> response.status])>>,
              result |-> OkNone]

\* Variant: takes the last element of workflow_runs instead of the first.
get_last_run_date_oldest(workflow_id, response) ==
    LET request == <<Ev("req", "runs", workflow_id, "", "per_page=1", NoTs),
                     Ev("resp", "runs", workflow_id, "", "", response)>>
    IN  IF ~response.sent
        THEN [events |-> request, result |-> Err("send")]
        ELSE IF is_success(response.status)
        THEN IF ~response.json
             THEN [events |-> request, result |-> Err("json")]
             ELSE IF response.doc.shape # "runs"
             THEN [events |-> request, result |-> Err("from_value")]
             ELSE IF response.doc.workflow_runs # << >>
             THEN [events |-> request,
                   result |-> OkSome(response.doc.workflow_runs[
                                        Len(response.doc.workflow_runs)].created_at)]
             ELSE [events |-> request, result |-> OkNone]
        ELSE [events |-> request \o
                 <<Out("fetch_runs_failed", workflow_id, "", "",
                       [status |-> response.status])>>,
              result |-> OkNone]

\* Variant: a request that could not be sent is sent a second time.
get_last_run_date_retry(workflow_id, response) ==
    LET request == <<Ev("req", "runs", workflow_id, "", "per_page=1", NoTs),
                     Ev("resp", "runs", workflow_id, "", "", response)>>
    IN  IF ~response.sent
        THEN [events |-> request \o request, result |-> Err("send")]
        ELSE IF is_success(response.status)
        THEN IF ~response.json
             THEN [events |-> request, result |-> Err("json")]
             ELSE IF response.doc.shape # "runs"
             THEN [events |-> request, result |-> Err("from_value")]
             ELSE IF response.doc.workflow_runs # << >>
             THEN [events |-> request,
                   result |-> OkSome(Head(response.doc.workflow_runs).created_at)]
             ELSE [events |-> request, result |-> OkNone]
        ELSE [events |-> request \o
                 <<Out("fetch_runs_failed", workflow_id, "", "",
                       [status |-> response.status])>>,
              result |-> OkNone]

\* get_last_run_date: the request, what came back, and the value returned.
get_last_run_date(workflow_id, response) ==
    LET request == <<Ev("req", "runs", workflow_id, "", "per_page=1", NoTs),
                     Ev("resp", "runs", workflow_id, "", "", response)>>
    IN  IF ~response.sent
        THEN [events |-> request, result |-> Err("send")]
        ELSE IF is_success(response.status)
        THEN IF ~response.json
             THEN [events |-> request, result |-> Err("json")]
             ELSE IF response.doc.shape # "runs"
             THEN [events |-> request, result |-> Err("from_value")]
             ELSE IF response.doc.workflow_runs # << >>
             THEN [events |-> request,
                   result |-> OkSome(Head(response.doc.workflow_runs).created_at)]
             ELSE [events |-> request, result |-> OkNone]
        ELSE [events |-> request \o
                 <<Out("fetch_runs_failed", workflow_id, "", "",
                       [status |-> response.status])>>,
              result |-> OkNone]

-----------------------------------------------------------------------------
(* display_workflows.                                                      *)

state_emoji(state) ==
    CASE state = "active"   -> "check"
      [] state = "disabled" -> "cross"
      [] OTHER              -> "question"

\* Variant: the comparison ignores case.
is_active_any_case(state) == state \in {"active", "Active", "ACTIVE"}

is_active(state) == state = "active"

\* Variant: the fallback shows the normalized text instead of the raw one.
timestamp_line_normalized(tag, warning, timestamp, localOffset) ==
    LET parsed == parse_github_timestamp_to_local(timestamp, localOffset)
    IN  IF parsed.ok
        THEN <<Out(tag, parsed.local, "", "local", NoTs)>>
        ELSE <<Out(tag, 0, "", "raw", replace_Z(timestamp)), Warn(warning, timestamp)>>

\* One timestamp line: the localized time, or the raw text and a warning.
timestamp_line(tag, warning, timestamp, localOffset) ==
    LET parsed == parse_github_timestamp_to_local(timestamp, localOffset)
    IN  IF parsed.ok
        THEN <<Out(tag, parsed.local, "", "local", NoTs)>>
        ELSE <<Out(tag, 0, "", "raw", timestamp), Warn(warning, timestamp)>>

\* Variant: an Err is shown like a workflow that never ran.
last_run_line_err_as_never(result, localOffset) ==
    IF result.tag = "Ok" /\ result.some
    THEN timestamp_line("last_run", "last_run_unparsed", result.value, localOffset)
    ELSE <<Out("last_run", 0, "", "never", NoTs)>>

\* The match on get_last_run_date's result (the rest of the "Last Run: " line).
last_run_line(result, localOffset) ==
    IF result.tag = "Ok" /\ result.some
    THEN timestamp_line("last_run", "last_run_unparsed", result.value, localOffset)
    ELSE IF result.tag = "Ok"
    THEN <<Out("last_run", 0, "", "never", NoTs)>>
    ELSE <<Out("last_run", 0, result.err, "error", NoTs)>>

\* Variant: get_last_run_date(...)? in the loop, so an Err leaves the function.
loop_body_propagating(i, workflow, response, localOffset) ==
    LET fetched == get_last_run_date(workflow.id, response)
        lines ==
            <<Out("index", i + 1, "", "", NoTs),
              Out("name", 0, workflow.name, "", NoTs),
              Out("state", 0, workflow.state, state_emoji(workflow.state), NoTs)>>
            \o timestamp_line("created", "created_unparsed",
                              workflow.created_at, localOffset)
            \o <<Out("is_active", 0,
                     IF is_active(workflow.state) THEN "Yes" ELSE "No", "", NoTs)>>
            \o timestamp_line("updated", "updated_unparsed",
                              workflow.updated_at, localOffset)
            \o <<Out("last_run_label", 0, "", "", NoTs)>>
            \o fetched.events
    IN  IF fetched.result.tag = "Err"
        THEN [events |-> lines, flow |-> "return_err", fetched |-> fetched.result]
        ELSE [events |-> lines \o last_run_line(fetched.result, localOffset)
                               \o <<Out("separator", 0, "", "", NoTs)>>,
              flow |-> "continue",
              fetched |-> fetched.result]

\* Variant: the "Is Active" line is written right after the state line.
loop_body_active_first(i, workflow, response, localOffset) ==
    LET fetched == get_last_run_date(workflow.id, response)
    IN  [events |->
            <<Out("index", i + 1, "", "", NoTs),
              Out("name", 0, workflow.name, "", NoTs),
              Out("state", 0, workflow.state, state_emoji(workflow.state), NoTs),
              Out("is_active", 0,
                  IF is_active(workflow.state) THEN "Yes" ELSE "No", "", NoTs)>>
            \o timestamp_line("created", "created_unparsed",
                              workflow.created_at, localOffset)
            \o timestamp_line("updated", "updated_unparsed",
                              workflow.updated_at, localOffset)
            \o <<Out("last_run_label", 0, "", "", NoTs)>>
            \o fetched.events
            \o last_run_line(fetched.result, localOffset)
            \o <<Out("separator", 0, "", "", NoTs)>>,
         flow |-> "continue",
         fetched |-> fetched.result]

\* One iteration of the for loop.  flow is "continue" when the body runs to
\* its end and "return_err" when it leaves display_workflows with an Err;
\* fetched is what get_last_run_date returned.
loop_body(i, workflow, response, localOffset) ==
    LET fetched == get_last_run_date(workflow.id, response)
    IN  [events |->
            <<Out("index", i + 1, "", "", NoTs),
              Out("name", 0, workflow.name, "", NoTs),
              Out("state", 0, workflow.state, state_emoji(workflow.state), NoTs)>>
            \o timestamp_line("created", "created_unparsed",
                              workflow.created_at, localOffset)
            \o <<Out("is_active", 0,
                     IF is_active(workflow.state) THEN "Yes" ELSE "No", "", NoTs)>>
            \o timestamp_line("updated", "updated_unparsed",
                              workflow.updated_at, localOffset)
            \o <<Out("last_run_label", 0, "", "", NoTs)>>
            \o fetched.events
            \o last_run_line(fetched.result, localOffset)
            \o <<Out("separator", 0, "", "", NoTs)>>,
         flow |-> "continue",
         fetched |-> fetched.result]

\* The lines before the loop.
summary_header(total_count) ==
    <<Out("summary_title", 0, "", "", NoTs),
      Out("summary_rule", 0, "", "", NoTs),
      Out("total", total_count, "", "", NoTs)>>

-----------------------------------------------------------------------------
(* main.                                                                   *)

\* Variant: the status of the list response is not looked at.
main_list_any_status(response) ==
    LET request == <<Out("fetching", 0, "", "", NoTs),
                     Ev("req", "workflows", 0, "", "", NoTs),
                     Ev("resp", "workflows", 0, "", "", response)>>
        failed(e) == [events |-> request \o <<Warn("Error", [error |-> e])>>,
                      exit |-> 1, decoded |-> FALSE]
    IN  IF ~response.sent THEN failed("send")
        ELSE IF ~response.json THEN failed("json")
        ELSE IF response.doc.shape # "workflows" THEN failed("from_value")
        ELSE [events |-> request \o summary_header(response.doc.total_count),
              exit |-> 0 - 1, decoded |-> TRUE]

\* What main does with the workflow-list response, up to the first loop
\* iteration: the events, the exit code if it ends here (-1 if it goes on).
main_list(response) ==
    LET request == <<Out("fetching", 0, "", "", NoTs),
                     Ev("req", "workflows", 0, "", "", NoTs),
                     Ev("resp", "workflows", 0, "", "", response)>>
        failed(e) == [events |-> request \o <<Warn("Error", [error |-> e])>>,
                      exit |-> 1, decoded |-> FALSE]
    IN  IF ~response.sent THEN failed("send")
        ELSE IF is_success(response.status)
        THEN IF ~response.json THEN failed("json")
             ELSE IF response.doc.shape # "workflows" THEN failed("from_value")
             ELSE [events |-> request \o summary_header(response.doc.total_count),
                   exit |-> 0 - 1, decoded |-> TRUE]
        ELSE [events |-> request \o
                 <<Out("request_failed", response.status, "", "", NoTs)>>,
              exit |-> 0, decoded |-> FALSE]

-----------------------------------------------------------------------------
(* What the remote API may answer.                                         *)

\* Timezones of the machine running the tool, in minutes east of UTC.
LocalOffsets == {0, 0 - 300}

SampleWorkflows ==
    { Workflow(101, "build",  "active",   TsZ,       TsFracZ),
      Workflow(102, "deploy", "disabled", TsOffset,  TsGarbage),
      Workflow(103, "legacy", "archived", TsGarbage, TsFracOff),
      Workflow(104, "docs",   "Active",   TsNoZone,  TsNoZone) }

SeqsUpTo(S, n) == UNION {[1..k -> S] : k \in 0..n}

ListResponses ==
    {NetworkFailure, HttpStatus(404), NotJson, Success(OtherDoc)}
    \cup {Success(WorkflowsDoc(Len(wfs), wfs)) :
            wfs \in SeqsUpTo(SampleWorkflows, MaxWorkflows)}

RunResponses ==
    {NetworkFailure, HttpStatus(404), NotJson, Success(OtherDoc),
     Success(RunsDoc(0, << >>)),
     Success(RunsDoc(1, <<WorkflowRun(TsZ, "completed", "success")>>)),
     Success(RunsDoc(1, <<WorkflowRun(TsGarbage, "in_progress", "null")>>)),
     Success(RunsDoc(7, <<WorkflowRun(TsFracOff, "completed", "failure"),
                          WorkflowRun(TsZ, "completed", "success")>>))}

-----------------------------------------------------------------------------
(* The program as a state machine.                                         *)
(*   pc        : "main" before the list request, "loop" inside the for     *)
(*               loop of display_workflows, "done" after main returned     *)
(*   tz        : the machine's timezone                                    *)
(*   workflows : response.workflows once decoded                           *)
(*   index     : workflows rendered so far                                 *)
(*   last_run  : what the latest call of get_last_run_date returned        *)
(*   exitCode  : -1 while running, then the process exit status            *)

Init ==
    /\ pc = "main"
    /\ tz \in LocalOffsets
    /\ workflows = << >>
    /\ index = 0
    /\ last_run = [tag |-> "unset", some |-> FALSE, value |-> NoTs, err |-> ""]
    /\ trace = << >>
    /\ exitCode = 0 - 1

\* main up to the for loop: the list request and what it leads to.  With no
\* workflow to render the loop is skipped and main returns Ok(()).
Main ==
    /\ pc = "main"
    /\ \E response \in ListResponses :
        LET r == main_list(response)
        IN  /\ trace' = trace \o r.events
            /\ IF r.decoded
               THEN /\ workflows' = response.doc.workflows
                    /\ IF response.doc.workflows = << >>
                       THEN pc' = "done" /\ exitCode' = 0
                       ELSE pc' = "loop" /\ exitCode' = exitCode
               ELSE /\ pc' = "done"
                    /\ workflows' = workflows
                    /\ exitCode' = r.exit
    /\ UNCHANGED <<tz, index, last_run>>

\* One iteration of the for loop, with the run request it makes.  After the
\* last workflow display_workflows returns Ok(()), and so does main.
RenderWorkflow ==
    /\ pc = "loop"
    /\ index < Len(workflows)
    /\ \E response \in RunResponses :
        LET b == loop_body(index, workflows[index + 1], response, tz)
        IN  /\ last_run' = b.fetched
            /\ IF b.flow = "continue"
               THEN /\ trace' = trace \o b.events
                    /\ index' = index + 1
                    /\ IF index + 1 = Len(workflows)
                       THEN pc' = "done" /\ exitCode' = 0
                       ELSE pc' = "loop" /\ exitCode' = exitCode
               ELSE /\ trace' = trace \o b.events
                                      \o <<Warn("Error", [error |-> b.fetched.err])>>
                    /\ index' = index
                    /\ pc' = "done"
                    /\ exitCode' = 1
    /\ UNCHANGED <<tz, workflows>>

Next == Main \/ RenderWorkflow

Spec == Init /\ [][Next]_vars

-----------------------------------------------------------------------------
(* Reading the trace.                                                      *)

Tagged(seq, ch, tag) == SelectSeq(seq, LAMBDA e : e.ch = ch /\ e.tag = tag)
OutOf(seq)  == SelectSeq(seq, LAMBDA e : e.ch = "out")
ErrOf(seq)  == SelectSeq(seq, LAMBDA e : e.ch = "err")
TagsOf(seq) == [j \in 1..Len(seq) |-> seq[j].tag]

\* Positions of the "Workflow #k" lines: block k starts at the k-th of them
\* and runs up to the next one, or to the end of the trace.
BlockStarts ==
    SelectSeq([p \in 1..Len(trace) |-> p],
              LAMBDA p : trace[p].ch = "out" /\ trace[p].tag = "index")

Blocks ==
    LET starts == BlockStarts
    IN  [k \in 1..Len(starts) |->
            SubSeq(trace, starts[k],
                   IF k < Len(starts) THEN starts[k + 1] - 1 ELSE Len(trace))]

\* The answer to the workflow-list request, once it has arrived.
ListAnswered == pc # "main"
ListResponse == Tagged(SubSeq(trace, 1, 3), "resp", "workflows")[1].val

Status2xx(r) == r.status \in 200..299
Fetched(r)   == r.sent /\ Status2xx(r)
Decodes(r, shape) == Fetched(r) /\ r.json /\ r.doc.shape = shape
\* A body with a success status that cannot be mapped to the entity.
Unmappable(r, shape) == Fetched(r) /\ ~(r.json /\ r.doc.shape = shape)

ListDecoded == ListAnswered /\ Decodes(ListResponse, "workflows")
Delivered   == ListResponse.doc.workflows

\* The answer to the run request made in block b.
RunResponseIn(b) == Tagged(b, "resp", "runs")[1].val

FieldTags == {"name", "state", "is_active", "created", "updated", "last_run", "separator"}

\* Block b shows every field once and ends with the separator line.
BlockComplete(b) ==
    LET out == OutOf(b)
    IN  /\ \A t \in FieldTags : Len(Tagged(out, "out", t)) = 1
        /\ out[Len(out)].tag = "separator"

\* Block b is the k-th block and shows the workflow w.
BlockOfWorkflow(b, k, w) ==
    /\ b[1].n = k
    /\ Tagged(b, "out", "name")[1].s = w.name

-----------------------------------------------------------------------------
(* C1: the exit status is non-zero exactly when the workflow-list request  *)
(* could not be fetched or parsed (network failure, non-success status,    *)
(* invalid JSON, schema mismatch), and zero in every other run.            *)
C1_ExitStatus ==
    pc = "done" =>
        (exitCode # 0 <=> ~Decodes(ListResponse, "workflows"))

(* C2: once the list is decoded, exactly one complete block per workflow   *)
(* is emitted, in the order delivered, whatever the run fetches and the    *)
(* timestamp parses gave; no failure cuts a block or stops later ones.     *)
C2_AllBlocksComplete ==
    ListDecoded =>
        LET blocks == Blocks
        IN  /\ Len(blocks) = index
            /\ pc = "done" => Len(blocks) = Len(Delivered) /\ exitCode = 0
            /\ \A k \in 1..Len(blocks) :
                  BlockComplete(blocks[k]) /\ BlockOfWorkflow(blocks[k], k, Delivered[k])

C2_Witness ==
    /\ pc = "done"
    /\ ListDecoded
    /\ Len(Blocks) = 2
    /\ ~RunResponseIn(Blocks[1]).sent
    /\ Delivered[1] # Delivered[2]
    /\ BlockComplete(Blocks[2])

(* C3: a non-success status on the workflow-list request is reported, and  *)
(* the run ends with no summary header, no workflow block and no run       *)
(* request.                                                                *)
C3_ListStatusFailure ==
    (ListAnswered /\ ListResponse.sent /\ ~Status2xx(ListResponse)) =>
        /\ pc = "done"
        /\ Len(Tagged(trace, "out", "request_failed")) = 1
        /\ Tagged(trace, "out", "request_failed")[1].n = ListResponse.status
        /\ Tagged(trace, "out", "summary_title") = << >>
        /\ Tagged(trace, "out", "total") = << >>
        /\ BlockStarts = << >>
        /\ Tagged(trace, "req", "runs") = << >>

C3_Witness ==
    /\ pc = "done"
    /\ ListResponse.sent
    /\ ListResponse.status = 404
    /\ Tagged(trace, "out", "request_failed") # << >>

(* C4 as stated: a body with a success status that cannot be mapped to its *)
(* entity is fatal wherever it occurs, the workflow-list response or the   *)
(* run-list response of any workflow: the program stops with an error and  *)
(* renders no further workflow.                                            *)
C4_FatalEverywhere ==
    pc = "done" =>
        LET blocks == Blocks
        IN  /\ Unmappable(ListResponse, "workflows") =>
                  exitCode # 0 /\ Len(blocks) = 0
            /\ ListDecoded =>
                  \A k \in 1..Len(blocks) :
                      Unmappable(RunResponseIn(blocks[k]), "runs") =>
                          exitCode # 0 /\ Len(blocks) = k

(* C4 amended: such a body is fatal in the workflow-list response only     *)
(* (error exit, nothing rendered); in the run-list response of a workflow  *)
(* it gives the error display on that workflow's last-run line, the block  *)
(* is completed and the workflows after it are still rendered.             *)
C4_FatalForListOnly ==
    /\ (ListAnswered /\ Unmappable(ListResponse, "workflows")) =>
          /\ pc = "done"
          /\ exitCode = 1
          /\ BlockStarts = << >>
          /\ Tagged(trace, "out", "summary_title") = << >>
          /\ Len(Tagged(trace, "err", "Error")) = 1
    /\ ListDecoded =>
          LET blocks == Blocks
          IN  /\ \A k \in 1..Len(blocks) :
                    Unmappable(RunResponseIn(blocks[k]), "runs") =>
                        /\ Tagged(blocks[k], "out", "last_run")[1].m = "error"
                        /\ BlockComplete(blocks[k])
                        /\ Tagged(blocks[k], "err", "Error") = << >>
              /\ pc = "done" => Len(blocks) = Len(Delivered) /\ exitCode = 0

C4_Witness ==
    /\ pc = "done"
    /\ ListDecoded
    /\ Len(Blocks) = 2
    /\ RunResponseIn(Blocks[1]) = Success(OtherDoc)
    /\ BlockComplete(Blocks[2])

\* The field lines of block b, by tag, in the order written.
LineOrder(b) ==
    SelectSeq(TagsOf(OutOf(b)), LAMBDA t : t \in FieldTags \cup {"index"})

(* C5 as stated: in every block the lines come in the order index, name,   *)
(* state, is-active, created, updated, last-run, separator; the is-active  *)
(* line comes after the state line and before the created line.            *)
C5_ActiveBeforeCreated ==
    ListDecoded =>
        LET blocks == Blocks
        IN  \A k \in 1..Len(blocks) :
                LineOrder(blocks[k]) =
                    <<"index", "name", "state", "is_active", "created",
                      "updated", "last_run", "separator">>

(* C5 amended: in every block the lines come in the order index, name,     *)
(* state, created, is-active, updated, last-run, separator; the is-active  *)
(* line comes after the created line and before the updated line.          *)
C5_ActiveAfterCreated ==
    ListDecoded =>
        LET blocks == Blocks
        IN  \A k \in 1..Len(blocks) :
                LineOrder(blocks[k]) =
                    <<"index", "name", "state", "created", "is_active",
                      "updated", "last_run", "separator">>

C5_Witness ==
    /\ ListDecoded
    /\ Len(Blocks) = 2
    /\ Len(LineOrder(Blocks[2])) = 8

-----------------------------------------------------------------------------
(* C6: get_last_run_date makes one run request and returns Ok(None) for a  *)
(* success status with no runs, Ok(Some(created_at of the first run)) for  *)
(* a success status with runs, Ok(None) plus a warning naming the workflow *)
(* for a non-success status, and Err for a network failure or an           *)
(* undecodable body; nothing else.  (last_run holds what the latest call   *)
(* returned, the last block what it wrote.)                                *)
C6_FetcherOutcomes ==
    (ListDecoded /\ index >= 1) =>
        LET b    == Blocks[index]
            r    == RunResponseIn(b)
            id   == Delivered[index].id
            warn == Tagged(b, "out", "fetch_runs_failed")
        IN  /\ Len(SelectSeq(b, LAMBDA e : e.ch = "req")) = 1
            /\ last_run.tag \in {"Ok", "Err"}
            /\ last_run.tag = "Err" <=> (~r.sent \/ Unmappable(r, "runs"))
            /\ (Decodes(r, "runs") /\ r.doc.workflow_runs = << >>) =>
                    last_run = OkNone
            /\ (Decodes(r, "runs") /\ r.doc.workflow_runs # << >>) =>
                    last_run = OkSome(r.doc.workflow_runs[1].created_at)
            /\ (r.sent /\ ~Status2xx(r)) =>
                    /\ last_run = OkNone
                    /\ Len(warn) = 1
                    /\ warn[1].n = id
                    /\ warn[1].val.status = r.status
            /\ warn # << >> => (r.sent /\ ~Status2xx(r))

C6_Witness ==
    /\ ListDecoded
    /\ index >= 1
    /\ Decodes(RunResponseIn(Blocks[index]), "runs")
    /\ Len(RunResponseIn(Blocks[index]).doc.workflow_runs) = 2
    /\ RunResponseIn(Blocks[index]).doc.workflow_runs[1].created_at
          # RunResponseIn(Blocks[index]).doc.workflow_runs[2].created_at
    /\ last_run.some

(* C7: the last-run line shows a timestamp (localized, or raw and marked   *)
(* raw) iff the fetcher returned Some, "never run" iff it returned None    *)
(* and the error display iff it returned an error; when None came from a   *)
(* non-success status a warning for that workflow is shown as well, and    *)
(* only then.                                                              *)
C7_LastRunDisplays ==
    (ListDecoded /\ index >= 1) =>
        LET b     == Blocks[index]
            lines == Tagged(b, "out", "last_run")
            line  == lines[1]
            warn  == Tagged(b, "out", "fetch_runs_failed")
            r     == RunResponseIn(b)
        IN  /\ Len(lines) = 1
            /\ line.m \in {"local", "raw", "never", "error"}
            /\ line.m \in {"local", "raw"} <=> (last_run.tag = "Ok" /\ last_run.some)
            /\ line.m = "never" <=> (last_run.tag = "Ok" /\ ~last_run.some)
            /\ line.m = "error" <=> last_run.tag = "Err"
            /\ line.m = "raw" => line.val = last_run.value
            /\ line.m = "error" => line.s = last_run.err
            /\ (r.sent /\ ~Status2xx(r)) =>
                    /\ line.m = "never"
                    /\ Len(warn) = 1
                    /\ warn[1].n = Delivered[index].id
            /\ (Decodes(r, "runs") /\ r.doc.workflow_runs = << >>) =>
                    line.m = "never" /\ warn = << >>

C7_Witness ==
    /\ ListDecoded
    /\ index = 2
    /\ Tagged(Blocks[1], "out", "fetch_runs_failed") # << >>
    /\ Tagged(Blocks[1], "out", "last_run")[1].m = "never"
    /\ Tagged(Blocks[2], "out", "fetch_runs_failed") = << >>
    /\ Tagged(Blocks[2], "out", "last_run")[1].m = "never"

(* C8: "is active" is Yes iff the state is exactly "active"; the marker is *)
(* the active one iff the state is "active", the disabled one iff it is    *)
(* "disabled" and the unrecognized one otherwise, so "archived" and        *)
(* "Active" get the unrecognized marker and No; an unknown state does not  *)
(* stop the render.                                                        *)
C8_StateAndActive ==
    ListDecoded =>
        LET blocks == Blocks
        IN  \A k \in 1..Len(blocks) :
                LET st     == Delivered[k].state
                    states == Tagged(blocks[k], "out", "state")
                    active == Tagged(blocks[k], "out", "is_active")
                IN  /\ Len(states) = 1 /\ Len(active) = 1
                    /\ states[1].s = st
                    /\ states[1].m = "check" <=> st = "active"
                    /\ states[1].m = "cross" <=> st = "disabled"
                    /\ states[1].m = "question" <=> st \notin {"active", "disabled"}
                    /\ active[1].s = "Yes" <=> st = "active"
                    /\ active[1].s = "No" <=> st # "active"
                    /\ BlockComplete(blocks[k])

C8_Witness ==
    /\ pc = "done"
    /\ ListDecoded
    /\ Len(Blocks) = 2
    /\ Delivered[1].state = "Active"
    /\ Delivered[2].state = "archived"
    /\ Tagged(Blocks[1], "out", "is_active")[1].s = "No"
    /\ Tagged(Blocks[2], "out", "state")[1].m = "question"

-----------------------------------------------------------------------------
\* The four parse attempts on a timestamp string, in the order tried.
Attempts(x) ==
    <<parse_from_str_Z(x, TRUE), parse_from_str_Z(x, FALSE),
      parse_from_str_z(replace_Z(x), TRUE), parse_from_str_z(replace_Z(x), FALSE)>>

Matches(x) == \E a \in 1..4 : Attempts(x)[a].ok

FirstMatch(x) ==
    LET att == Attempts(x)
    IN  att[CHOOSE a \in 1..4 : att[a].ok /\ \A c \in 1..(a - 1) : ~att[c].ok]

\* The line of one timestamp field of block b, showing the string x.
FieldShown(b, tag, warning, x, nextTag) ==
    LET lines == Tagged(b, "out", tag)
        warns == Tagged(b, "err", warning)
    IN  /\ Len(lines) = 1
        /\ Tagged(b, "out", nextTag) # << >>
        /\ IF Matches(x)
           THEN /\ lines[1].m = "local"
                /\ lines[1].n = FirstMatch(x).utc + tz
                /\ warns = << >>
           ELSE /\ lines[1].m = "raw"
                /\ lines[1].val = x
                /\ Len(warns) = 1
                /\ warns[1].val = x

HasRun(b) ==
    Decodes(RunResponseIn(b), "runs") /\ RunResponseIn(b).doc.workflow_runs # << >>

FirstRun(b) == RunResponseIn(b).doc.workflow_runs[1].created_at

(* C9: a timestamp that matches none of the four patterns never stops the  *)
(* render: for created_at, updated_at and the last run alike the raw text  *)
(* is shown unchanged with one warning on standard error and the next      *)
(* field follows; a timestamp that parses is shown localized with no       *)
(* warning.                                                                *)
C9_TimestampFallback ==
    ListDecoded =>
        LET blocks == Blocks
        IN  \A k \in 1..Len(blocks) :
                LET b == blocks[k]
                IN  /\ FieldShown(b, "created", "created_unparsed",
                                  Delivered[k].created_at, "is_active")
                    /\ FieldShown(b, "updated", "updated_unparsed",
                                  Delivered[k].updated_at, "last_run")
                    /\ IF HasRun(b)
                       THEN FieldShown(b, "last_run", "last_run_unparsed",
                                       FirstRun(b), "separator")
                       ELSE Tagged(b, "err", "last_run_unparsed") = << >>
                    /\ \A e \in 1..Len(ErrOf(b)) :
                          ErrOf(b)[e].tag \in
                              {"created_unparsed", "updated_unparsed",
                               "last_run_unparsed"}

C9_Witness ==
    /\ pc = "done"
    /\ ListDecoded
    /\ Len(Blocks) = 2
    /\ ~Matches(Delivered[1].created_at)
    /\ Matches(Delivered[1].updated_at)
    /\ HasRun(Blocks[1]) /\ ~Matches(FirstRun(Blocks[1]))
    /\ Len(ErrOf(Blocks[1])) = 2
    /\ Delivered[2].created_at.zone = "Z" /\ Matches(Delivered[2].created_at)
    /\ BlockComplete(Blocks[2])

\* Positions in block b of its events of the given channel and tag.
PosIn(b, ch, tag) == {p \in 1..Len(b) : b[p].ch = ch /\ b[p].tag = tag}

Requests == SelectSeq(trace, LAMBDA e : e.ch = "req")

(* C10: one workflow-list request comes first; if it decodes to N          *)
(* workflows, N run requests follow, one per workflow in list order, keyed *)
(* by the workflow's id with per_page=1, each answered before anything     *)
(* else happens and each sent after that workflow's created and updated    *)
(* lines; nothing is retried, so 1 + N requests in all.                    *)
C10_RequestSequence ==
    pc # "main" =>
        LET reqs   == Requests
            blocks == Blocks
        IN  /\ reqs # << >>
            /\ reqs[1].tag = "workflows"
            /\ Len(Tagged(reqs, "req", "workflows")) = 1
            /\ \A p \in 1..Len(trace) :
                  trace[p].ch = "req" =>
                      /\ p < Len(trace)
                      /\ trace[p + 1].ch = "resp"
                      /\ trace[p + 1].tag = trace[p].tag
            /\ ~ListDecoded => Len(reqs) = 1
            /\ ListDecoded =>
                  /\ Len(reqs) = 1 + index
                  /\ pc = "done" => Len(reqs) = 1 + Len(Delivered)
                  /\ \A k \in 1..index :
                        /\ reqs[k + 1].tag = "runs"
                        /\ reqs[k + 1].n = Delivered[k].id
                        /\ reqs[k + 1].m = "per_page=1"
                        /\ \E r \in PosIn(blocks[k], "req", "runs") :
                              /\ PosIn(blocks[k], "req", "runs") = {r}
                              /\ \E c \in PosIn(blocks[k], "out", "created") : c < r
                              /\ \E u \in PosIn(blocks[k], "out", "updated") : u < r

C10_Witness ==
    /\ pc = "done"
    /\ ListDecoded
    /\ Len(Requests) = 3
    /\ Delivered[1].id # Delivered[2].id
    /\ ~RunResponseIn(Blocks[1]).sent
    /\ RunResponseIn(Blocks[2]).status = 404

====
